---- MODULE Spec2Model ----
(***************************************************************************)
(* A model of astley (src/index.js, src/utils.js): a collection wrapper    *)
(* (Astley) over single-tree wrappers (AstleyNode) that search and mutate  *)
(* an AST in place.                                                        *)
(*                                                                         *)
(* The AST is a heap of JavaScript objects.  heap[i] is either a plain     *)
(* object (an ordered list of named fields) or an array (an ordered list   *)
(* of elements).  A value is a reference to a heap object, a string, or    *)
(* undefined.  Objects that no tree can reach (the File and Program        *)
(* wrappers of a parsed fragment) are not kept in the heap.                *)
(***************************************************************************)
EXTENDS Integers, Sequences, FiniteSets, TLC

VARIABLES heap,   \* the objects of the AST
          coll,   \* the Astley collection the caller holds: the ids its AstleyNodes wrap
          prev,   \* the heap before the last call and the collection it was made on
          last,   \* the last call: operation, arguments, return value
          nmut,   \* number of mutating calls made so far
          mutated \* the last mutating call: its target, its arguments, the heap before it

vars == <<heap, coll, prev, last, nmut, mutated>>

(***************************************************************************)
(* Bounds of the model.                                                    *)
(***************************************************************************)
MaxOps  == 1    \* mutating calls in one run
MaxColl == 12   \* elements of a collection; a search of the held collection that would return more is not made

(***************************************************************************)
(* Values and heap objects.                                                *)
(***************************************************************************)
Ref(i) == [t |-> "ref", id |-> i, s |-> ""]
Str(x) == [t |-> "str", id |-> 0, s |-> x]
Num(n) == [t |-> "num", id |-> n, s |-> ""]
Bool(b) == [t |-> "bool", id |-> IF b THEN 1 ELSE 0, s |-> ""]
Undef  == [t |-> "undef", id |-> 0, s |-> ""]

Obj(names, vals) == [kind |-> "obj", names |-> names, vals |-> vals]
Arr(vals)        == [kind |-> "arr", names |-> <<>>, vals |-> vals]

\* JavaScript truthiness of a value: objects are truthy, "" and undefined are not
Truthy(v) == v.t = "ref" \/ (v.t = "str" /\ v.s # "")

\* utils.isNil
isNil(v) == v.t = "undef"

\* utils.isPlainObject: a non-nil object that is not an array
isPlainObject(h, v) == ~isNil(v) /\ v.t = "ref" /\ h[v.id].kind # "arr"

isArray(h, v) == v.t = "ref" /\ h[v.id].kind = "arr"

\* property read  v.name : undefined when v has no such own field
GetField(h, v, name) ==
  IF v.t = "ref" /\ h[v.id].kind = "obj"
       /\ \E i \in 1..Len(h[v.id].names) : h[v.id].names[i] = name
  THEN h[v.id].vals[CHOOSE i \in 1..Len(h[v.id].names) : h[v.id].names[i] = name]
  ELSE Undef

(***************************************************************************)
(* The trees the program starts from.                                      *)
(* ParsedTree: what recast.parse gives for                                 *)
(*     function f(){}  ({a:'x', a:'y', b:'z'})                             *)
(* SharedTree: a hand-built graph given to new Astley(graph), in which the *)
(* first statement is reachable through body and through main.             *)
(***************************************************************************)
Prop(keyId, lit) == Obj(<<"type", "key", "value">>, <<Str("Property"), Ref(keyId), Str(lit)>>)
Ident(name)      == Obj(<<"type", "name">>, <<Str("Identifier"), Str(name)>>)

ParsedTree ==
  << Obj(<<"type", "program">>, <<Str("File"), Ref(2)>>),
     Obj(<<"type", "body">>, <<Str("Program"), Ref(3)>>),
     Arr(<<Ref(4), Ref(7)>>),
     Obj(<<"type", "body">>, <<Str("FunctionDeclaration"), Ref(5)>>),
     Obj(<<"type", "body">>, <<Str("BlockStatement"), Ref(6)>>),
     Arr(<<>>),
     Obj(<<"type", "expression">>, <<Str("ExpressionStatement"), Ref(8)>>),
     Obj(<<"type", "properties">>, <<Str("ObjectExpression"), Ref(9)>>),
     Arr(<<Ref(10), Ref(12), Ref(14)>>),
     Prop(11, "x"), Ident("a"),
     Prop(13, "y"), Ident("a"),
     Prop(15, "z"), Ident("b") >>

SharedTree ==
  << Obj(<<"type", "body", "main">>, <<Str("Program"), Ref(2), Ref(3)>>),
     Arr(<<Ref(3), Ref(5)>>),
     Obj(<<"type", "expression">>, <<Str("ExpressionStatement"), Ref(4)>>),
     Ident("a"),
     Obj(<<"type">>, <<Str("EmptyStatement")>>) >>

InitTrees == {ParsedTree, SharedTree}

(***************************************************************************)
(* Astley constructor (index.js 55-65): flatten the arguments one level,   *)
(* keep the plain objects, wrap each in an AstleyNode.  A collection is    *)
(* the sequence of the ids its AstleyNodes wrap.  A number argument, which *)
(* Array.prototype.map and concat pass through the species constructor,    *)
(* is not a plain object and is dropped.                                   *)
(***************************************************************************)
RECURSIVE KeepPlain(_, _)
KeepPlain(h, objects) ==
  IF objects = <<>> THEN <<>>
  ELSE (IF isPlainObject(h, Head(objects)) THEN <<Head(objects).id>> ELSE <<>>)
         \o KeepPlain(h, Tail(objects))

AstleyCtor(h, objects) == KeepPlain(h, objects)

(***************************************************************************)
(* AstleyNode.search (index.js 182-213).                                   *)
(***************************************************************************)
\* an index entry: a shallow copy of the node's fields plus __node and parent;
\* parent is the entry built for the enclosing call, named by the object it copies
Indice(h, v, parent) ==
  [t |-> "indice", id |-> 0, s |-> "", __node |-> v.id, parent |-> parent,
   names |-> h[v.id].names, vals |-> h[v.id].vals]

\* a === b : the same type and the same primitive value or the same object; an
\* indice is a fresh copy, so it is no object of the heap
StrictEquals(a, b) == a.t = b.t /\ a.t # "indice" /\ a.id = b.id /\ a.s = b.s

\* Array.prototype.indexOf, zero-based, -1 when absent
indexOf(index, v) ==
  IF \E i \in 1..Len(index) : StrictEquals(index[i], v)
  THEN (CHOOSE i \in 1..Len(index) :
          /\ StrictEquals(index[i], v)
          /\ \A j \in 1..(i-1) : ~StrictEquals(index[j], v)) - 1
  ELSE -1

RECURSIVE buildIndex(_, _, _, _), buildEach(_, _, _, _, _)
\* a variant that adds a node to the index after the nodes under it
buildIndexAfterChildren(h, v, parent, index) ==
  IF isArray(h, v) THEN buildEach(h, h[v.id].vals, 1, v.id, index)
  ELSE IF ~isPlainObject(h, v) THEN index
  ELSE Append(buildEach(h, h[v.id].vals, 1, v.id, index), Indice(h, v, parent))

\* index.js 189-198; index is threaded through instead of being a closure variable
buildIndex(h, v, parent, index) ==
  IF isArray(h, v) THEN buildEach(h, h[v.id].vals, 1, v.id, index)
  ELSE IF ~isPlainObject(h, v) THEN index
  ELSE LET indice == Indice(h, v, parent)
           pushed == IF indexOf(index, v) < 0 THEN Append(index, indice) ELSE index
       IN  buildEach(h, h[v.id].vals, 1, v.id, pushed)

\* values(node).forEach(value => buildIndex(value, indice)), left to right;
\* reading Len(index) fixes the index before the next value is visited
buildEach(h, vals, i, parent, index) ==
  IF i > Len(vals) \/ Len(index) < 0 THEN index
  ELSE buildEach(h, vals, i + 1, parent, buildIndex(h, vals[i], parent, index))

\* the test functions given to search; "keyname" is  x => x.key.name === a,
\* which raises a TypeError on an entry without a key
PTrue      == [k |-> "true",    a |-> ""]
PFalse     == [k |-> "false",   a |-> ""]
PRaise     == [k |-> "raise",   a |-> ""]
PType(ty)  == [k |-> "type",    a |-> ty]
PKey(name) == [k |-> "keyname", a |-> name]

Preds == {PTrue, PFalse, PRaise, PKey("a"),
          PType("ObjectExpression"), PType("FunctionDeclaration")}

EntryField(e, name) ==
  IF \E i \in 1..Len(e.names) : e.names[i] = name
  THEN e.vals[CHOOSE i \in 1..Len(e.names) : e.names[i] = name]
  ELSE Undef

\* fn(item, item.parent): "T" truthy, "F" falsy, "E" raises
CallFn(h, fn, item) ==
  CASE fn.k = "true"    -> "T"
    [] fn.k = "false"   -> "F"
    [] fn.k = "raise"   -> "E"
    [] fn.k = "type"    -> IF EntryField(item, "type") = Str(fn.a) THEN "T" ELSE "F"
    [] fn.k = "keyname" -> IF EntryField(item, "key").t # "ref" THEN "E"
                           ELSE IF GetField(h, EntryField(item, "key"), "name") = Str(fn.a)
                                THEN "T" ELSE "F"

\* options: "none" (no options argument), "false", "true" (throwErrors)
Options == {"none", "false", "true"}
\* a variant that throws whenever an options object is given
throwErrorsWithAnyOptions(options) == options # "none"

\* options.throwErrors (index.js 208)
throwErrors(options) == options = "true"

RECURSIVE searchLoop(_, _, _, _, _, _)
\* index.js 203-211: the while loop over the index
searchLoop(h, index, fn, options, i, results) ==
  IF i > Len(index) \/ Len(results) < 0 THEN [raised |-> FALSE, results |-> results, calls |-> Len(index)]
  ELSE LET item == index[i]
           r    == CallFn(h, fn, item)
       IN  IF r = "E" /\ throwErrors(options)
           THEN [raised |-> TRUE, results |-> <<>>, calls |-> i]
           ELSE searchLoop(h, index, fn, options, i + 1,
                           IF r = "T" THEN Append(results, Ref(item.__node)) ELSE results)

\* AstleyNode.search: the result is  new Astley(...results)
search(h, ast, options, fn) ==
  LET index == buildIndex(h, Ref(ast), 0, <<>>)
      out   == searchLoop(h, index, fn, options, 1, <<>>)
  IN  [raised |-> out.raised,
       results |-> IF out.raised THEN <<>> ELSE AstleyCtor(h, out.results),
       calls |-> out.calls]

(***************************************************************************)
(* Astley.search (index.js 84-87): map each node to its search, then       *)
(* reduce with concat from an empty collection.                            *)
(***************************************************************************)
RECURSIVE mapSearch(_, _, _, _, _, _), reduceConcat(_, _, _)
\* this.map(node => node.search(...arguments)): an error raised by one search
\* leaves the map, and so the call
mapSearch(h, c, options, fn, i, mapped) ==
  IF i > Len(c) \/ Len(mapped) < 0 THEN [raised |-> FALSE, mapped |-> mapped]
  ELSE LET r == search(h, c[i], options, fn)
       IN  IF r.raised THEN [raised |-> TRUE, mapped |-> <<>>]
           ELSE mapSearch(h, c, options, fn, i + 1, Append(mapped, r.results))

\* a variant that puts each result in front of the ones before it
reduceConcatInFront(mapped, i, acc) ==
  IF i > Len(mapped) \/ Len(acc) < 0 THEN acc
  ELSE reduceConcat(mapped, i + 1, mapped[i] \o acc)

\* .reduce((acc, val) => acc.concat(val), new this.constructor())
reduceConcat(mapped, i, acc) ==
  IF i > Len(mapped) \/ Len(acc) < 0 THEN acc
  ELSE reduceConcat(mapped, i + 1, acc \o mapped[i])

collSearch(h, c, options, fn) ==
  LET m == mapSearch(h, c, options, fn, 1, <<>>)
  IN  IF m.raised THEN [raised |-> TRUE, results |-> <<>>]
      ELSE [raised |-> FALSE, results |-> reduceConcat(m.mapped, 1, AstleyCtor(h, <<>>))]

(***************************************************************************)
(* The external parser and stringifier, as far as the program uses them.   *)
(* A host value is a string  Str(text)  or a function  Fn(name).           *)
(***************************************************************************)
Fn(name) == [t |-> "fn", id |-> 0, s |-> name]

\* javascript-stringify: the source text of a literal for the value
stringify(v) ==
  CASE v.t = "fn"  -> "function " \o v.s \o "(){}"
    [] v.t = "str" -> "'" \o v.s \o "'"
    [] OTHER       -> "undefined"

\* the types of the top-level statements recast.parse finds in a text
Statements(text) ==
  CASE text = ""                 -> <<>>
    [] text = "x;"               -> <<"ExpressionStatement">>
    [] text = "x;function g(){}" -> <<"ExpressionStatement", "FunctionDeclaration">>
    [] text = "function f(){}"   -> <<"FunctionDeclaration">>
    [] OTHER                     -> <<"ExpressionStatement">>

\* stringToAST (index.js 327-330) followed by  .ast.program.body : the
\* statements are new objects, body lists them in source order
stringToAST(h, text) ==
  LET types == Statements(text)
  IN  [heap |-> h \o [i \in 1..Len(types) |-> Obj(<<"type">>, <<Str(types[i])>>)],
       body |-> [i \in 1..Len(types) |-> Ref(Len(h) + i)]]

(***************************************************************************)
(* Array.prototype.splice(start, deleteCount, item) on a sequence.         *)
(***************************************************************************)
Min(a, b) == IF a < b THEN a ELSE b
Max(a, b) == IF a > b THEN a ELSE b

RelativeStart(len, start) == IF start < 0 THEN Max(len + start, 0) ELSE Min(start, len)

spliceInsert(arr, start, item) ==
  LET rs == RelativeStart(Len(arr), start)
  IN  SubSeq(arr, 1, rs) \o <<item>> \o SubSeq(arr, rs + 1, Len(arr))

spliceRemove(arr, start) ==
  LET rs == RelativeStart(Len(arr), start)
  IN  SubSeq(arr, 1, rs) \o SubSeq(arr, rs + 2, Len(arr))

\* a variant in which the new list is a copy and the tree keeps the old one
SetValsOfCopy(h, id, vals) == Append(h, [h[id] EXCEPT !.vals = vals])

\* the array object id gets the elements vals: splice changes the array itself
SetVals(h, id, vals) == [h EXCEPT ![id].vals = vals]

(***************************************************************************)
(* AstleyNode: body, append, prepend and their variants (index.js 162-272) *)
(* Each returns [ret, heap]: ret is "true", "false" or "raise".            *)
(***************************************************************************)
\* get body (index.js 162-165)
body(h, ast) ==
  LET program     == GetField(h, Ref(ast), "program")
      programBody == GetField(h, program, "body")
      ownBody     == GetField(h, Ref(ast), "body")
  IN  IF Truthy(program) /\ Truthy(programBody) THEN programBody
      ELSE IF Truthy(ownBody) THEN ownBody
      ELSE Undef

RECURSIVE spliceEach(_, _, _, _, _)
\* body.forEach(obj => { this.body.splice(at, 0, obj) })
spliceEach(h, arr, at, items, i) ==
  IF i > Len(items) THEN h
  ELSE spliceEach(SetVals(h, arr, spliceInsert(h[arr].vals, at, items[i])),
                  arr, at, items, i + 1)

\* index.js 248-257; splice is not a function of a body that is no array
appendString(h, ast, string, at) ==
  IF ~Truthy(body(h, ast)) THEN [ret |-> "false", heap |-> h]
  ELSE LET fragment == stringToAST(h, string.s)
           where    == IF isNil(at) THEN Len(fragment.body) ELSE at.id
       IN  IF fragment.body # <<>> /\ ~isArray(h, body(h, ast))
           THEN [ret |-> "raise", heap |-> h]
           ELSE [ret |-> "true",
                 heap |-> IF fragment.body = <<>> THEN h
                          ELSE spliceEach(fragment.heap, body(h, ast).id, where,
                                          fragment.body, 1)]

\* index.js 239-242
appendObject(h, ast, object, at) == appendString(h, ast, Str(stringify(object)), at)

\* index.js 270-272: the index is not a parameter
prependString(h, ast, string, at) == appendString(h, ast, string, Undef)

\* index.js 262-265
prependObject(h, ast, object, at) == prependString(h, ast, Str(stringify(object)), Undef)

\* index.js 220-223
append(h, ast, object, at) ==
  IF object.t = "str" THEN appendString(h, ast, object, at)
  ELSE appendObject(h, ast, object, at)

\* index.js 230-233
prepend(h, ast, object, at) ==
  IF object.t = "str" THEN prependString(h, ast, object, at)
  ELSE prependObject(h, ast, object, at)

(***************************************************************************)
(* AstleyNode: properties, prop, props, removeProp (index.js 156-158,      *)
(* 278-324).  Each returns [ret, heap]; ret is "true", "false", "raise",   *)
(* or for the read form of prop "object" (an entry) or "undefined".        *)
(***************************************************************************)
\* get properties (index.js 156-158); null is modelled by Undef
properties(h, ast) ==
  IF Truthy(GetField(h, Ref(ast), "properties")) THEN GetField(h, Ref(ast), "properties")
  ELSE Undef

KeyName(h, p) == GetField(h, GetField(h, p, "key"), "name")

\* the entries of the object expression parsed from  ({name: value}) , found by
\* fragment.search(x => x.type === 'ObjectExpression')[0].properties.  The
\* stringifier decides whether an undefined value is written: kept tells.
propertyEntries(h, name, value, kept) ==
  IF isNil(value) /\ ~kept THEN [heap |-> h, props |-> <<>>]
  ELSE [heap |-> h \o << Obj(<<"type", "key", "value">>,
                             <<Str("Property"), Ref(Len(h) + 2),
                               IF isNil(value) THEN Str("undefined") ELSE value>>),
                         Obj(<<"type", "name">>, <<Str("Identifier"), Str(name)>>) >>,
        props |-> <<Ref(Len(h) + 1)>>]

\* x || y on numbers
OrElse(x, y) == IF x # 0 THEN x ELSE y

\* index.js 278-292.  oIntex is not declared: reading it raises.
prop(h, ast, nargs, name, value, kept) ==
  IF ~isArray(h, properties(h, ast)) THEN [ret |-> "false", heap |-> h]
  ELSE LET arr   == properties(h, ast).id
           list  == h[arr].vals
       IN  IF nargs = 1
           THEN [ret |-> IF \E i \in 1..Len(list) : KeyName(h, list[i]) = Str(name)
                         THEN "object" ELSE "undefined",
                 heap |-> h]
           ELSE IF \E i \in 1..Len(list) : isNil(GetField(h, list[i], "key"))
           THEN [ret |-> "raise", heap |-> h]
           ELSE LET flags    == [i \in 1..Len(list) |-> Bool(KeyName(h, list[i]) = Str(name))]
                    oIndex   == OrElse(indexOf(flags, Str(name)), Len(list) - 1)
                    fragment == propertyEntries(h, name, value, kept)
                IN  IF oIndex > -1 THEN [ret |-> "raise", heap |-> h]
                    ELSE [ret |-> "true",
                          heap |-> spliceEach(fragment.heap, arr, 0, fragment.props, 1)]

RECURSIVE everyProp(_, _, _, _)
\* entries(obj).every(pair => this.prop(...pair))
everyProp(h, ast, pairs, i) ==
  IF i > Len(pairs) THEN [ret |-> "true", heap |-> h]
  ELSE LET r == prop(h, ast, 2, pairs[i].name, pairs[i].value, TRUE)
       IN  IF r.ret = "true" THEN everyProp(r.heap, ast, pairs, i + 1)
           ELSE [ret |-> r.ret, heap |-> r.heap]

\* index.js 298-301; obj is [plain, pairs]
props(h, ast, obj) ==
  IF ~obj.plain THEN [ret |-> "false", heap |-> h]
  ELSE everyProp(h, ast, obj.pairs, 1)

RECURSIVE removeEach(_, _, _, _, _)
\* properties.forEach((prop, i) => { if(fn(prop)) properties.splice(i, 1) }):
\* forEach visits the indices 0 .. length-at-the-start - 1 that the array still has
removeEach(h, list, fn, k, len) ==
  IF k > len THEN [raised |-> FALSE, list |-> list]
  ELSE IF k > Len(list) THEN removeEach(h, list, fn, k + 1, len)
  ELSE LET r == CallFn(h, fn, h[list[k].id])
       IN  IF r = "E" THEN [raised |-> TRUE, list |-> list]
           ELSE removeEach(h, IF r = "T" THEN spliceRemove(list, k - 1) ELSE list,
                           fn, k + 1, len)

\* index.js 310-324; filter is [t |-> "function", fn] or [t |-> "string", s]
removeProp(h, ast, filter) ==
  IF ~isArray(h, properties(h, ast)) THEN [ret |-> "false", heap |-> h]
  ELSE LET arr  == properties(h, ast).id
           list == h[arr].vals
       IN  IF filter.t = "function"
           THEN LET r == removeEach(h, list, filter.fn, 1, Len(list))
                IN  [ret |-> IF r.raised THEN "raise" ELSE "true",
                     heap |-> SetVals(h, arr, r.list)]
           ELSE IF filter.t = "string"
           THEN LET hits == {i \in 1..Len(list) :
                               /\ Truthy(GetField(h, list[i], "key"))
                               /\ KeyName(h, list[i]) = Str(filter.s)}
                    first == CHOOSE i \in hits : \A j \in hits : i <= j
                IN  [ret |-> "true",
                     heap |-> IF hits = {} THEN h
                              ELSE SetVals(h, arr, spliceRemove(list, first - 1))]
           ELSE [ret |-> "true", heap |-> h]

(***************************************************************************)
(* A call: the operation and the arguments the caller gives.               *)
(***************************************************************************)
NoFn     == [k |-> "", a |-> ""]
NoObj    == [plain |-> TRUE, pairs |-> <<>>]
NoFilter == [t |-> "undefined", s |-> "", fn |-> NoFn]
NoArg == [op |-> "init", level |-> "", options |-> "none", fn |-> NoFn,
          value |-> Undef, at |-> Undef, nargs |-> 0, name |-> "", obj |-> NoObj,
          filter |-> NoFilter, kept |-> TRUE, ret |-> "", calls |-> 0]

\* the AstleyNode method a call names, applied to the node wrapping ast
nodeCall(h, ast, c) ==
  CASE c.op = "append"        -> append(h, ast, c.value, c.at)
    [] c.op = "prepend"       -> prepend(h, ast, c.value, c.at)
    [] c.op = "appendString"  -> appendString(h, ast, c.value, c.at)
    [] c.op = "prependString" -> prependString(h, ast, c.value, c.at)
    [] c.op = "appendObject"  -> appendObject(h, ast, c.value, c.at)
    [] c.op = "prependObject" -> prependObject(h, ast, c.value, c.at)
    [] c.op = "prop"          -> prop(h, ast, c.nargs, c.name, c.value, c.kept)
    [] c.op = "props"         -> props(h, ast, c.obj)
    [] c.op = "removeProp"    -> removeProp(h, ast, c.filter)

(***************************************************************************)
(* Astley: the collection methods (index.js 92-144).  Each is              *)
(* this.forEach(node => node.method(...)) with the arguments its own       *)
(* parameter list names, and returns undefined.                            *)
(***************************************************************************)
\* what the collection method hands to the node method: append, prepend and
\* their variants name one parameter; prop always passes name and value;
\* removeProp passes its arguments on
forwarded(c) ==
  CASE c.op \in {"append", "prepend", "appendString", "prependString",
                 "appendObject", "prependObject"} -> [c EXCEPT !.at = Undef]
    [] c.op = "prop" -> [c EXCEPT !.nargs = 2,
                                  !.value = IF c.nargs = 1 THEN Undef ELSE c.value]
    [] OTHER -> c

RECURSIVE forEachNode(_, _, _, _)
forEachNode(h, c, call, i) ==
  IF i > Len(c) THEN [ret |-> "undefined", heap |-> h]
  ELSE LET r == nodeCall(h, c[i], call)
       IN  IF r.ret = "raise" THEN [ret |-> "raise", heap |-> r.heap]
           ELSE forEachNode(r.heap, c, call, i + 1)

collCall(h, c, call) == forEachNode(h, c, forwarded(call), 1)

(***************************************************************************)
(* The state machine.  A caller holds one collection, coll, at first the   *)
(* one the constructor made from the tree's root.  Node-level calls are    *)
(* made on the collection's first element, coll[0] in the source's terms.  *)
(* A run selects nodes by searching and then mutates them: searches of the *)
(* held collection are made before the first mutating call.  The caller    *)
(* also keeps the collection the constructor made, and searches it again   *)
(* after mutating calls.                                                   *)
(***************************************************************************)
Levels   == {"node", "coll"}
Texts    == {Str("x;"), Str("x;function g(){}")}
Objects  == {Fn("f")}
Ats      == {Undef, Num(0), Num(1), Num(2)}
Names    == {"a", "c"}
PropObjs == { [plain |-> TRUE, pairs |-> <<>>],
              [plain |-> TRUE, pairs |-> <<[name |-> "c", value |-> Str("v")]>>],
              [plain |-> TRUE, pairs |-> <<[name |-> "c", value |-> Str("v")],
                                           [name |-> "d", value |-> Str("w")]>>] }
Filters  == { [t |-> "string", s |-> "a", fn |-> NoFn],
              [t |-> "string", s |-> "c", fn |-> NoFn],
              [t |-> "function", s |-> "", fn |-> PKey("a")],
              [t |-> "function", s |-> "", fn |-> PTrue] }

Init ==
  /\ heap \in InitTrees
  /\ coll = AstleyCtor(heap, <<Ref(1)>>)
  /\ prev = [heap |-> heap, coll |-> coll]
  /\ last = NoArg
  /\ nmut = 0
  /\ mutated = [target |-> 0, call |-> NoArg, heap |-> heap]

\* coll[0].search(options, fn)
NodeSearch(options, fn) ==
  /\ nmut = 0
  /\ coll # <<>>
  /\ LET out == search(heap, coll[1], options, fn)
     IN  /\ Len(out.results) <= MaxColl
         /\ coll' = IF out.raised THEN coll ELSE out.results
         /\ last' = [NoArg EXCEPT !.op = "search", !.level = "node",
                                  !.options = options, !.fn = fn,
                                  !.ret = IF out.raised THEN "raise" ELSE "collection",
                                  !.calls = out.calls]
  /\ prev' = [heap |-> heap, coll |-> coll]
  /\ UNCHANGED <<heap, nmut, mutated>>

\* coll.search(options, fn)
CollSearch(options, fn) ==
  /\ nmut = 0
  /\ LET out == collSearch(heap, coll, options, fn)
     IN  /\ Len(out.results) <= MaxColl
         /\ coll' = IF out.raised THEN coll ELSE out.results
         /\ last' = [NoArg EXCEPT !.op = "search", !.level = "coll",
                                  !.options = options, !.fn = fn,
                                  !.ret = IF out.raised THEN "raise" ELSE "collection"]
  /\ prev' = [heap |-> heap, coll |-> coll]
  /\ UNCHANGED <<heap, nmut, mutated>>

\* a mutating call, on coll[0] (level "node") or on coll (level "coll")
Mutate(level, call) ==
  /\ nmut < MaxOps
  /\ level = "node" => coll # <<>>
  /\ LET r == IF level = "node" THEN nodeCall(heap, coll[1], call)
              ELSE collCall(heap, coll, call)
     IN  /\ heap' = r.heap
         /\ last' = [call EXCEPT !.level = level, !.ret = r.ret]
         /\ mutated' = [target |-> IF level = "node" THEN coll[1] ELSE 0,
                        call |-> [call EXCEPT !.level = level, !.ret = r.ret],
                        heap |-> heap]
  /\ prev' = [heap |-> heap, coll |-> coll]
  /\ nmut' = nmut + 1
  /\ UNCHANGED coll

\* the collection the caller built from the tree: new Astley(tree)
rootColl(h) == AstleyCtor(h, <<Ref(1)>>)

\* the test functions of the searches made after a mutating call
LaterPreds == {PTrue, PKey("a")}

\* root[0].search(fn) after a mutating call; the caller holds the result.  A
\* search changes nothing, so a second one in a row reaches what the first does.
RootSearch(fn) ==
  /\ nmut > 0
  /\ last.op # "search"
  /\ LET out == search(heap, rootColl(heap)[1], "none", fn)
     IN  /\ coll' = out.results
         /\ last' = [NoArg EXCEPT !.op = "search", !.level = "root", !.fn = fn,
                                  !.ret = "collection", !.calls = out.calls]
  /\ prev' = [heap |-> heap, coll |-> rootColl(heap)]
  /\ UNCHANGED <<heap, nmut, mutated>>

CallAppend(level, object, at) ==
  Mutate(level, [NoArg EXCEPT !.op = "append", !.value = object, !.at = at])
CallPrepend(level, object, at) ==
  Mutate(level, [NoArg EXCEPT !.op = "prepend", !.value = object, !.at = at])
CallAppendString(level, string, at) ==
  Mutate(level, [NoArg EXCEPT !.op = "appendString", !.value = string, !.at = at])
CallPrependString(level, string) ==
  Mutate(level, [NoArg EXCEPT !.op = "prependString", !.value = string])
CallAppendObject(level, object, at) ==
  Mutate(level, [NoArg EXCEPT !.op = "appendObject", !.value = object, !.at = at])
CallPrependObject(level, object) ==
  Mutate(level, [NoArg EXCEPT !.op = "prependObject", !.value = object])
\* prop(name): kept is what the stringifier does with the undefined value the
\* collection method passes on
CallPropRead(level, name, kept) ==
  /\ level = "node" => kept
  /\ Mutate(level, [NoArg EXCEPT !.op = "prop", !.nargs = 1, !.name = name, !.kept = kept])
CallProp(level, name, value) ==
  Mutate(level, [NoArg EXCEPT !.op = "prop", !.nargs = 2, !.name = name, !.value = value])
CallProps(level, obj) ==
  Mutate(level, [NoArg EXCEPT !.op = "props", !.obj = obj])
CallRemoveProp(level, filter) ==
  Mutate(level, [NoArg EXCEPT !.op = "removeProp", !.filter = filter])

Next ==
  \/ \E options \in Options, fn \in Preds : NodeSearch(options, fn)
  \/ \E options \in Options, fn \in Preds : CollSearch(options, fn)
  \/ \E fn \in LaterPreds : RootSearch(fn)
  \/ \E level \in Levels, object \in Texts \cup Objects, at \in Ats : CallAppend(level, object, at)
  \/ \E level \in Levels, object \in Texts \cup Objects, at \in Ats : CallPrepend(level, object, at)
  \/ \E level \in Levels, string \in Texts, at \in Ats : CallAppendString(level, string, at)
  \/ \E level \in Levels, string \in Texts : CallPrependString(level, string)
  \/ \E level \in Levels, object \in Objects, at \in Ats : CallAppendObject(level, object, at)
  \/ \E level \in Levels, object \in Objects : CallPrependObject(level, object)
  \/ \E level \in Levels, name \in Names, kept \in BOOLEAN : CallPropRead(level, name, kept)
  \/ \E level \in Levels, name \in Names : CallProp(level, name, Str("v"))
  \/ \E level \in Levels, obj \in PropObjs : CallProps(level, obj)
  \/ \E level \in Levels, filter \in Filters : CallRemoveProp(level, filter)

Spec == Init /\ [][Next]_vars

(***************************************************************************)
(* Vocabulary of the properties.                                           *)
(***************************************************************************)
Range(seq) == {seq[i] : i \in 1..Len(seq)}

NoRepeat(seq) == \A i, j \in 1..Len(seq) : seq[i] = seq[j] => i = j

\* the node a node-level call was made on
Target == prev.coll[1]

NodeSearched == last.op = "search" /\ last.level = "node"
CollSearched == last.op = "search" /\ last.level = "coll"

BodyOps == {"append", "prepend", "appendString", "prependString",
            "appendObject", "prependObject"}
PropOps == {"prop", "props", "removeProp"}

RECURSIVE PreOrder(_, _), PreOrderEach(_, _, _)
\* the plain objects met on a pre-order walk from v: a node, then what its
\* fields hold, field by field; an array stands for its elements, left to right
PreOrder(h, v) ==
  IF isArray(h, v) THEN PreOrderEach(h, h[v.id].vals, 1)
  ELSE IF ~isPlainObject(h, v) THEN <<>>
  ELSE <<v.id>> \o PreOrderEach(h, h[v.id].vals, 1)
PreOrderEach(h, vals, i) ==
  IF i > Len(vals) THEN <<>>
  ELSE PreOrder(h, vals[i]) \o PreOrderEach(h, vals, i + 1)

\* what the test function answers for the node n itself
Answer(h, fn, n) == CallFn(h, fn, h[n])

Matching(h, fn, nodes) == SelectSeq(nodes, LAMBDA n : Answer(h, fn, n) = "T")

\* the body and the properties list of the target before and after the call
ListOf(h, v) == IF isArray(h, v) THEN h[v.id].vals ELSE <<>>
OldBody  == ListOf(prev.heap, body(prev.heap, Target))
NewBody  == ListOf(heap, body(prev.heap, Target))
OldProps == ListOf(prev.heap, properties(prev.heap, Target))
NewProps == ListOf(heap, properties(prev.heap, Target))

\* the objects the call created
IsNew(v) == v.t = "ref" /\ v.id > Len(prev.heap)

(***************************************************************************)
(* C1: search with a test function that is always true returns every plain *)
(* object reachable from the root exactly once: the size of the result is  *)
(* the number of distinct reachable nodes and no node appears twice.       *)
(***************************************************************************)
C1_EveryNodeOnce ==
  (NodeSearched /\ last.fn = PTrue /\ last.ret = "collection") =>
     /\ Range(coll) = Range(PreOrder(prev.heap, Ref(Target)))
     /\ Len(coll) = Cardinality(Range(PreOrder(prev.heap, Ref(Target))))
     /\ NoRepeat(coll)

(***************************************************************************)
(* C2: a search that returns gives the nodes, in pre-order, for which the  *)
(* test function answered truthy, and nothing else; a test function that   *)
(* is always false gives the empty collection.                             *)
(***************************************************************************)
C2_MatchesInPreOrder ==
  (NodeSearched /\ last.ret = "collection") =>
     /\ coll = Matching(prev.heap, last.fn, PreOrder(prev.heap, Ref(Target)))
     /\ last.fn = PFalse => coll = <<>>

C2_Witness ==
  /\ NodeSearched /\ last.ret = "collection" /\ last.options = "none"
  /\ last.fn = PType("ObjectExpression")
  /\ Len(PreOrder(prev.heap, Ref(Target))) > 2
  /\ coll = <<8>>

(***************************************************************************)
(* C3: without throwErrors an error of the test function is swallowed, the *)
(* entry does not match and the remaining entries are still evaluated;     *)
(* with throwErrors the first error leaves search and nothing is returned. *)
(***************************************************************************)
Raising(h, fn, nodes) == {i \in 1..Len(nodes) : Answer(h, fn, nodes[i]) = "E"}

C3_ErrorsSwallowedOrThrown ==
  NodeSearched =>
    LET nodes == PreOrder(prev.heap, Ref(Target))
        bad   == Raising(prev.heap, last.fn, nodes)
    IN  IF last.options = "true" /\ bad # {}
        THEN /\ last.ret = "raise"
             /\ coll = prev.coll
             /\ last.calls = CHOOSE i \in bad : \A j \in bad : i <= j
        ELSE /\ last.ret = "collection"
             /\ last.calls = Len(nodes)
             /\ \A i \in bad : nodes[i] \notin Range(coll)
             /\ Range(coll) = {nodes[i] : i \in {j \in 1..Len(nodes) :
                                   Answer(prev.heap, last.fn, nodes[j]) = "T"}}
             /\ last.fn = PRaise => coll = <<>>

C3_Witness ==
  /\ NodeSearched /\ last.options = "false" /\ last.fn = PKey("a")
  /\ last.ret = "collection" /\ last.calls = 12 /\ coll = <<10, 12>>

(***************************************************************************)
(* C4: search on a collection r1..rn is the searches of r1, .., rn, each   *)
(* in its own pre-order, one after the other in the order r1..rn, and its  *)
(* result is a collection of nodes of the tree.                            *)
(***************************************************************************)
Part(i) == search(prev.heap, prev.coll[i], last.options, last.fn).results

RECURSIVE Offset(_)
Offset(i) == IF i <= 1 THEN 0 ELSE Offset(i - 1) + Len(Part(i - 1))

C4_CollectionSearchConcatenates ==
  (CollSearched /\ last.ret = "collection") =>
     /\ Len(coll) = Offset(Len(prev.coll) + 1)
     /\ \A i \in 1..Len(prev.coll) : \A j \in 1..Len(Part(i)) :
           coll[Offset(i) + j] = Part(i)[j]
     /\ \A k \in 1..Len(coll) : isPlainObject(heap, Ref(coll[k]))

C4_Witness ==
  /\ CollSearched /\ last.ret = "collection" /\ last.fn = PTrue
  /\ prev.coll = <<10, 12>>
  /\ coll = <<10, 11, 12, 13>>

(***************************************************************************)
(* C5: a collection method changes each element's tree as the node method  *)
(* of the same name does when called on the elements in turn with the same *)
(* arguments.                                                              *)
(***************************************************************************)
RECURSIVE NodeWise(_, _, _, _)
NodeWise(h, c, call, i) ==
  IF i > Len(c) THEN h
  ELSE LET r == nodeCall(h, c[i], call)
       IN  IF r.ret = "raise" THEN r.heap ELSE NodeWise(r.heap, c, call, i + 1)

C5_CollectionCallIsNodeCalls ==
  (last.level = "coll" /\ last.op \in BodyOps \cup PropOps) =>
     heap = NodeWise(prev.heap, prev.coll, last, 1)

(***************************************************************************)
(* C6: on a node with a body list, append without an index leaves the new  *)
(* statements after every element the body had, and prepend without an     *)
(* index leaves them before every element the body had.                    *)
(***************************************************************************)
C6_AppendAtEndPrependAtStart ==
  (/\ last.level = "node" /\ last.op \in {"append", "prepend"}
   /\ isNil(last.at) /\ last.ret = "true"
   /\ isArray(prev.heap, body(prev.heap, Target))) =>
     LET n == Len(OldBody)
         k == Len(NewBody) - n
     IN  IF last.op = "append"
         THEN /\ SubSeq(NewBody, 1, n) = OldBody
              /\ \A i \in (n + 1)..(n + k) : IsNew(NewBody[i])
         ELSE /\ SubSeq(NewBody, k + 1, n + k) = OldBody
              /\ \A i \in 1..k : IsNew(NewBody[i])

(***************************************************************************)
(* C7: on a node with a body list B, append(x, i) and prepend(x, i) with a *)
(* one-statement x and 0 <= i <= |B| leave the new statement at index i,   *)
(* the elements before i as they were and the others one place later.      *)
(***************************************************************************)
SourceOf(value) == IF value.t = "str" THEN value.s ELSE stringify(value)

C7_InsertedAtIndex ==
  (/\ last.level = "node" /\ last.op \in {"append", "prepend"}
   /\ last.at.t = "num" /\ last.at.id >= 0 /\ last.at.id <= Len(OldBody)
   /\ Len(Statements(SourceOf(last.value))) = 1
   /\ isArray(prev.heap, body(prev.heap, Target))) =>
     NewBody = SubSeq(OldBody, 1, last.at.id)
                 \o <<Ref(Len(prev.heap) + 1)>>
                 \o SubSeq(OldBody, last.at.id + 1, Len(OldBody))

(***************************************************************************)
(* C8: on a node without a body list (no body, or a body that is no list)  *)
(* append, prepend and their String and Object variants return false,      *)
(* raise nothing and leave the tree as it was.                             *)
(***************************************************************************)
C8_NoBodyListReturnsFalse ==
  (/\ last.level = "node" /\ last.op \in BodyOps
   /\ ~isArray(prev.heap, body(prev.heap, Target))) =>
     last.ret = "false" /\ heap = prev.heap

(***************************************************************************)
(* C9: on a node without a properties list prop(name), prop(name, value),  *)
(* props(object) and removeProp(arg) return false and leave the tree as it *)
(* was.                                                                    *)
(***************************************************************************)
C9_NoPropertiesReturnsFalse ==
  (/\ last.level = "node" /\ last.op \in PropOps
   /\ ~isArray(prev.heap, properties(prev.heap, Target))) =>
     last.ret = "false" /\ heap = prev.heap

(***************************************************************************)
(* C10: after removeProp(arg) on a node with a properties list no entry    *)
(* that matches arg is left, and the entries that do not match are all     *)
(* there in the order they had.                                            *)
(***************************************************************************)
MatchesFilter(h, filter, p) ==
  CASE filter.t = "string"   -> KeyName(h, p) = Str(filter.s)
    [] filter.t = "function" -> Answer(h, filter.fn, p.id) = "T"
    [] OTHER                 -> FALSE

C10_RemovePropRemovesEveryMatch ==
  (/\ last.level = "node" /\ last.op = "removeProp"
   /\ isArray(prev.heap, properties(prev.heap, Target))) =>
     NewProps = SelectSeq(OldProps, LAMBDA p : ~MatchesFilter(prev.heap, last.filter, p))

(***************************************************************************)
(* C11: after prop(name, value) on an object expression the object its     *)
(* properties list denotes, a later entry overriding an earlier one of the *)
(* same key, has value under name and under every other key the value it   *)
(* had before, whether or not the list had an entry of that name.          *)
(***************************************************************************)
KeysOf(h, list) == {KeyName(h, list[i]) : i \in 1..Len(list)}

\* the value the literal gives the key: that of the last entry of that name
Denoted(h, list, key) ==
  LET hits == {i \in 1..Len(list) : KeyName(h, list[i]) = key}
  IN  IF hits = {} THEN Undef
      ELSE GetField(h, list[CHOOSE i \in hits : \A j \in hits : j <= i], "value")

C11_PropWritesNameKeepsOthers ==
  (/\ last.level = "node" /\ last.op = "prop" /\ last.nargs = 2
   /\ isArray(prev.heap, properties(prev.heap, Target))) =>
     /\ last.ret = "true"
     /\ Denoted(heap, NewProps, Str(last.name)) = last.value
     /\ \A key \in (KeysOf(prev.heap, OldProps) \cup KeysOf(heap, NewProps)) \ {Str(last.name)} :
           Denoted(heap, NewProps, key) = Denoted(prev.heap, OldProps, key)

(***************************************************************************)
(* C12: a mutating call made on a node that a search returned changes the  *)
(* tree the root holds: a search of the root made afterwards walks the     *)
(* lists as the call left them.  It returns the matching nodes of the      *)
(* current tree; what the call added is in the target's list and is        *)
(* walked; what the call removed is in neither.                            *)
(***************************************************************************)
LaterSearched == last.op = "search" /\ last.level = "root"

\* the objects the last mutating call created
Created == (Len(mutated.heap) + 1)..Len(heap)

IsEntry(h, i) == GetField(h, Ref(i), "type") # Str("Identifier")

HoldsInField(h, n, c) ==
  \E i \in 1..Len(h[n].vals) :
     LET v == h[n].vals[i]
     IN  v = Ref(c) \/ (isArray(h, v) /\ Ref(c) \in Range(h[v.id].vals))

C13_ParentSkipsArrays ==
  NodeSearched =>
     LET h     == prev.heap
         index == buildIndex(h, Ref(Target), 0, <<>>)
     IN  /\ index[1].__node = Target /\ index[1].parent = 0
         /\ \A k \in 2..Len(index) :
               /\ index[k].parent # 0
               /\ isPlainObject(h, Ref(index[k].parent))
               /\ HoldsInField(h, index[k].parent, index[k].__node)

(***************************************************************************)
(* C14: append or prepend of a text or value that parses to the statements *)
(* s1..sk, k > 1, makes the body k elements longer and leaves s1..sk in it *)
(* next to each other in the order of the fragment.                        *)
(***************************************************************************)
C14_FragmentKeepsItsOrder ==
  (/\ last.level = "node" /\ last.op \in {"append", "prepend"} /\ last.ret = "true"
   /\ Len(Statements(SourceOf(last.value))) > 1
   /\ isArray(prev.heap, body(prev.heap, Target))) =>
     LET k == Len(Statements(SourceOf(last.value)))
     IN  /\ Len(NewBody) = Len(OldBody) + k
         /\ \E j \in 0..Len(OldBody) :
               \A i \in 1..k : NewBody[j + i] = Ref(Len(prev.heap) + i)

====
